---- MODULE Spec2Model ----
(***************************************************************************)
(* BLang runtime core (lesson 8, "Runtime and Memory Management"):         *)
(* the MemoryManager (mark and sweep over a table of raw object pointers), *)
(* the runtime class table built by VirtualMachine::initializeClasses, and *)
(* the virtual machine's object instructions.                              *)
(*                                                                         *)
(* Objects are owned by std::shared_ptr: an object's storage exists as     *)
(* long as some shared_ptr (a global slot, an operand-stack entry, a       *)
(* frame local, a field of an existing object) refers to it.  The          *)
(* MemoryManager's table holds raw pointers and owns nothing.              *)
(***************************************************************************)
EXTENDS Integers, Sequences, FiniteSets, TLC

VARIABLES
    decls,              \* module->getClasses(): the class declarations
    classes,            \* VirtualMachine::classes: name -> ClassInstance handle
    classObjs,          \* every ClassInstance made so far, by handle
    vmStatus,           \* "created", "running", "loadError", "hostError"
    alive,              \* addresses whose ObjectInstance storage exists
    allocatedObjects,   \* MemoryManager::allocatedObjects (raw pointers)
    background,         \* further table entries: rooted objects outside Addr
    rootReferences,     \* MemoryManager::rootReferences (pointers to slots)
    globals,            \* the global slots (shared_ptr<ObjectInstance>)
    fields,             \* ObjectInstance::fields of each address
    marked,             \* ObjectInstance::marked of each address
    operandStack,       \* VirtualMachine::operandStack
    callStack,          \* VirtualMachine::callStack
    totalAllocated,     \* MemoryManager statistics
    totalCollected,
    collectionCount,
    lastCall,           \* the operation that made the current state
    program,            \* module->getFunction: function name -> instructions
    exceptionHandlers,  \* VirtualMachine::exceptionHandlers
    currentException,   \* VirtualMachine::currentException
    reported,           \* the "Uncaught exception" lines written to std::cerr
    untilReturn,        \* executeUntilReturn calls that have not returned
    unwindingFrames,    \* the frame (auto& frame) of each throwException
                        \* call that waits for its executeUntilReturn
    framesMade,         \* StackFrame objects constructed so far
    source,             \* the string handed to Lexer::tokenize
    tokens              \* the vector Lexer::tokenize returned

classVars == <<decls, classes, classObjs>>
heapVars == <<alive, allocatedObjects, background, rootReferences, globals,
              fields, marked, operandStack, callStack, totalAllocated,
              totalCollected, collectionCount>>
excVars == <<program, exceptionHandlers, currentException, reported,
             untilReturn, unwindingFrames>>
lexVars == <<source, tokens>>
vars == <<decls, classes, classObjs, vmStatus, alive, allocatedObjects,
          background, rootReferences, globals, fields, marked, operandStack,
          callStack, totalAllocated, totalCollected, collectionCount, lastCall,
          program, exceptionHandlers, currentException, reported, untilReturn,
          unwindingFrames, framesMade, source, tokens>>

(***************************************************************************)
(* Bounds of the model.                                                    *)
(***************************************************************************)
NumAddr == 2
MaxStack == 2
MaxFrames == 1
MaxRoots == 1
MaxAllocs == 2
MaxCollections == 3
MaxLen == 4
MaxNesting == 2

(***************************************************************************)
(* Program constants.                                                      *)
(***************************************************************************)
Null == 0
ObjectSize == 80
GCObjectThreshold == 1000
GCByteThreshold == 1024 * 1024

Addr == 1 .. NumAddr
Val == Addr \cup {Null}
EmptyMap == [x \in {} |-> x]

(***************************************************************************)
(* Runtime classes.                                                        *)
(***************************************************************************)
nullMethod ==
    [name |-> "", declaringClass |-> Null, parameterNames |-> <<>>,
     isVirtual |-> FALSE]

MethodInstance(n, declaring, params, virt) ==
    [name |-> n, declaringClass |-> declaring, parameterNames |-> params,
     isVirtual |-> virt]

\* buildVTable: the superclass's table, then this class's virtual methods.
buildVTable(objs, sup, methods) ==
    LET base == IF sup # Null THEN objs[sup].vtable ELSE EmptyMap
        own == {n \in DOMAIN methods : methods[n].isVirtual}
    IN  [n \in (DOMAIN base) \cup own |->
            IF n \in own THEN methods[n] ELSE base[n]]

\* The constructor: no methods and no fields yet; the vtable is built here.
ClassInstance(objs, n, sup) ==
    [name |-> n, superClass |-> sup, methods |-> EmptyMap,
     fieldNames |-> <<>>, vtable |-> buildVTable(objs, sup, EmptyMap)]

addMethod(c, n, method) ==
    [c EXCEPT !.methods = (n :> method) @@ c.methods]

addField(c, n) ==
    [c EXCEPT !.fieldNames = Append(c.fieldNames, n)]

\* isSubclassOf looking no further than the direct superclass.
isSubclassOfDirectOnly(objs, this, other) ==
    IF other = Null THEN FALSE
    ELSE this = other \/ objs[this].superClass = other

RECURSIVE isSubclassOf(_, _, _)
isSubclassOf(objs, this, other) ==
    IF other = Null THEN FALSE
    ELSE IF this = other THEN TRUE
    ELSE IF objs[this].superClass = Null THEN FALSE
    ELSE isSubclassOf(objs, objs[this].superClass, other)

\* lookupMethod of section 3.1: this class's methods, then the superclass.
RECURSIVE lookupMethodChain(_, _, _)
lookupMethodChain(objs, this, n) ==
    IF n \in DOMAIN objs[this].methods THEN objs[this].methods[n]
    ELSE IF objs[this].superClass # Null
         THEN lookupMethodChain(objs, objs[this].superClass, n)
         ELSE nullMethod

\* lookupMethod of section 4.2, which replaces it: the vtable, then the
\* non-virtual methods of this class only.
lookupMethod(objs, this, n) ==
    IF n \in DOMAIN objs[this].vtable THEN objs[this].vtable[n]
    ELSE IF n \in DOMAIN objs[this].methods /\ ~objs[this].methods[n].isVirtual
         THEN objs[this].methods[n]
         ELSE nullMethod

RECURSIVE getAllFieldNames(_, _)
getAllFieldNames(objs, this) ==
    (IF objs[this].superClass # Null
     THEN getAllFieldNames(objs, objs[this].superClass)
     ELSE <<>>) \o objs[this].fieldNames

(***************************************************************************)
(* VirtualMachine::initializeClasses.  A load state is                     *)
(* [ok, classes, objs]; a failed load keeps what was built before the      *)
(* throw.                                                                  *)
(***************************************************************************)
RECURSIVE createClassObjects(_, _, _)
createClassObjects(ds, i, st) ==
    IF i > Len(ds) THEN st
    ELSE LET h == Len(st.objs) + 1
         IN  createClassObjects(ds, i + 1,
                [st EXCEPT !.objs = Append(st.objs,
                                       ClassInstance(st.objs, ds[i].name, Null)),
                           !.classes = (ds[i].name :> h) @@ st.classes])

RECURSIVE addFields(_, _, _)
addFields(c, fs, i) ==
    IF i > Len(fs) THEN c ELSE addFields(addField(c, fs[i]), fs, i + 1)

RECURSIVE addMethods(_, _, _, _)
addMethods(c, h, ms, i) ==
    IF i > Len(ms) THEN c
    ELSE addMethods(
            addMethod(c, ms[i].name,
                MethodInstance(ms[i].name, h, ms[i].parameterNames,
                               ms[i].isVirtual)),
            h, ms, i + 1)

\* The second loop's iteration without its "Super class not found" throw.
linkClassUnchecked(d, st) ==
    LET hasSuper == d.superClassName # ""
        cls1 == IF hasSuper /\ d.superClassName \notin DOMAIN st.classes
                THEN (d.superClassName :> Null) @@ st.classes
                ELSE st.classes
        sup == IF hasSuper THEN cls1[d.superClassName] ELSE Null
        h == IF hasSuper THEN Len(st.objs) + 1 ELSE cls1[d.name]
        objs1 == IF hasSuper
                 THEN Append(st.objs, ClassInstance(st.objs, d.name, sup))
                 ELSE st.objs
        cls2 == IF hasSuper THEN (d.name :> h) @@ cls1 ELSE cls1
        c == addMethods(addFields(objs1[h], d.fields, 1), h, d.methods, 1)
    IN  [ok |-> TRUE, classes |-> cls2, objs |-> [objs1 EXCEPT ![h] = c]]

\* One iteration of the second loop, for declaration d.
linkClass(d, st) ==
    LET hasSuper == d.superClassName # ""
        \* classes[name] inserts a null entry for a name that is missing
        cls1 == IF hasSuper /\ d.superClassName \notin DOMAIN st.classes
                THEN (d.superClassName :> Null) @@ st.classes
                ELSE st.classes
        sup == IF hasSuper THEN cls1[d.superClassName] ELSE Null
    IN  IF hasSuper /\ sup = Null
        THEN [st EXCEPT !.ok = FALSE, !.classes = cls1]
        ELSE LET h == IF hasSuper THEN Len(st.objs) + 1 ELSE cls1[d.name]
                 objs1 == IF hasSuper
                          THEN Append(st.objs,
                                      ClassInstance(st.objs, d.name, sup))
                          ELSE st.objs
                 cls2 == IF hasSuper THEN (d.name :> h) @@ cls1 ELSE cls1
                 c == addMethods(addFields(objs1[h], d.fields, 1),
                                 h, d.methods, 1)
             IN  [ok |-> TRUE, classes |-> cls2,
                  objs |-> [objs1 EXCEPT ![h] = c]]

RECURSIVE linkClasses(_, _, _)
linkClasses(ds, i, st) ==
    IF i > Len(ds) \/ ~st.ok THEN st
    ELSE linkClasses(ds, i + 1, linkClass(ds[i], st))

initializeClasses(ds) ==
    linkClasses(ds, 1,
        createClassObjects(ds, 1,
            [ok |-> TRUE, classes |-> EmptyMap, objs |-> <<>>]))


(***************************************************************************)
(* The program the virtual machine runs: executeNew names "SomeClass" and   *)
(* executeSetField / executeGetField name "someField".                     *)
(***************************************************************************)
VMProgram ==
    << [name |-> "SomeClass", superClassName |-> "",
        fields |-> <<"someField">>,
        methods |-> << [name |-> "run", parameterNames |-> <<"p">>,
                        isVirtual |-> FALSE],
                       [name |-> "area", parameterNames |-> <<>>,
                        isVirtual |-> TRUE] >>] >>

FieldOrder == <<"someField">>
FieldNames == {FieldOrder[i] : i \in 1 .. Len(FieldOrder)}
GlobalNames == {"g"}
LocalNames == {"this", "p", "e"}
CallNames == {"run", "area"}
NoFields == [f \in FieldNames |-> Null]

(***************************************************************************)
(* shared_ptr ownership.  An object is destroyed when the last shared_ptr  *)
(* to it goes; its fields go with it, which may destroy further objects.   *)
(* Objects on a reference cycle keep each other in existence.              *)
(***************************************************************************)
StackRefs(st) == {st[i] : i \in 1 .. Len(st)}
FrameRefs(cs) == {cs[i].locals[n] : i \in 1 .. Len(cs), n \in LocalNames}
ExternalRefs(gl, st, cs) ==
    ({gl[g] : g \in GlobalNames} \cup StackRefs(st) \cup FrameRefs(cs)) \ {Null}

RECURSIVE Destroyed(_, _, _, _)
Destroyed(al, fl, ext, D) ==
    LET more == {o \in al \ D :
                    /\ o \notin ext
                    /\ \A a \in al \ D : \A f \in FieldNames : fl[a][f] # o}
    IN  IF more = {} THEN D ELSE Destroyed(al, fl, ext, D \cup more)

\* The heap after an operation left it with al, fl, mk, gl, st, cs.
Commit(al, fl, mk, gl, st, cs) ==
    LET gone == Destroyed(al, fl, ExternalRefs(gl, st, cs), {})
        al2 == al \ gone
    IN  /\ alive' = al2
        /\ fields' = [a \in Addr |-> IF a \in al2 THEN fl[a] ELSE NoFields]
        /\ marked' = [a \in Addr |-> a \in al2 /\ mk[a]]
        /\ globals' = gl
        /\ operandStack' = st
        /\ callStack' = cs

(***************************************************************************)
(* MemoryManager: mark and sweep.                                          *)
(***************************************************************************)
isObject(v) == v # Null

RECURSIVE getReferencesFrom(_, _, _)
getReferencesFrom(fl, obj, i) ==
    IF i > Len(FieldOrder) THEN <<>>
    ELSE (IF isObject(fl[obj][FieldOrder[i]])
          THEN <<fl[obj][FieldOrder[i]]>> ELSE <<>>)
         \o getReferencesFrom(fl, obj, i + 1)

getReferences(fl, obj) == getReferencesFrom(fl, obj, 1)

RECURSIVE markObject(_, _, _)
RECURSIVE markAll(_, _, _, _)
markObject(fl, mk, obj) ==
    IF obj = Null \/ mk[obj] THEN mk
    ELSE markAll(fl, [mk EXCEPT ![obj] = TRUE], getReferences(fl, obj), 1)

markAll(fl, mk, refs, i) ==
    IF i > Len(refs) THEN mk
    ELSE markAll(fl, markObject(fl, mk, refs[i]), refs, i + 1)

RECURSIVE markRoots(_, _, _, _, _)
markRoots(fl, mk, roots, gl, i) ==
    IF i > Len(roots) THEN mk
    ELSE markRoots(fl,
            IF gl[roots[i]] # Null THEN markObject(fl, mk, gl[roots[i]]) ELSE mk,
            roots, gl, i + 1)

\* unmark() on every table entry, then mark from the roots.  A table entry
\* whose object is destroyed has no storage to unmark.
markReachableObjects(tbl, fl, mk, roots, gl) ==
    markRoots(fl, [a \in Addr |-> IF a \in tbl THEN FALSE ELSE mk[a]],
              roots, gl, 1)

\* The table after the sweep.  isMarked() on a destroyed object reads freed
\* storage: the entry stays (keep) or goes, as the read turns out.
sweepUnmarkedObjects(tbl, al, mk, keep) ==
    {o \in tbl \cap al : mk[o]} \cup (keep \cap (tbl \ al))

shouldCollectGarbage(tbl, bg, total) ==
    Cardinality(tbl) + bg > GCObjectThreshold \/ total > GCByteThreshold

\* collectGarbage on table tbl with total bytes tot: [table, marked, freed].
collectGarbage(tbl, al, fl, mk, roots, gl, keep) ==
    LET mk2 == markReachableObjects(tbl, fl, mk, roots, gl)
        tbl2 == sweepUnmarkedObjects(tbl, al, mk2, keep)
    IN  [table |-> tbl2, marked |-> mk2,
         freedSize |-> (Cardinality(tbl) - Cardinality(tbl2)) * ObjectSize]

Dangling(tbl, al) == tbl \ al
allocations ==
    (totalAllocated + totalCollected) \div ObjectSize - background


(***************************************************************************)
(* The state after the VirtualMachine and its MemoryManager are made.      *)
(* background is the number of further objects in the table, each held by  *)
(* a registered root of its own and referring to nothing in Addr: a heap   *)
(* at the allocation threshold has GCObjectThreshold of them.              *)
(***************************************************************************)
HeapInit ==
    /\ alive = {}
    /\ allocatedObjects = {}
    /\ background \in {0, GCObjectThreshold}
    /\ rootReferences = <<>>
    /\ globals = [g \in GlobalNames |-> Null]
    /\ fields = [a \in Addr |-> NoFields]
    /\ marked = [a \in Addr |-> FALSE]
    /\ operandStack = <<>>
    /\ callStack = <<>>
    /\ totalAllocated = background * ObjectSize
    /\ totalCollected = 0
    /\ collectionCount = 0

\* No exception has been thrown yet.
NoException == [type |-> "", message |-> ""]

\* The exception state of a new VirtualMachine, and no Lexer call made.
ControlInit ==
    /\ exceptionHandlers = <<>>
    /\ currentException = NoException
    /\ reported = <<>>
    /\ untilReturn = 0
    /\ unwindingFrames = <<>>
    /\ framesMade = 0
    /\ source = <<>>
    /\ tokens = <<>>

Init ==
    /\ decls = VMProgram
    /\ classes = EmptyMap
    /\ classObjs = <<>>
    /\ vmStatus = "created"
    /\ lastCall = "construct"
    /\ HeapInit
    /\ program = EmptyMap
    /\ ControlInit

Running == vmStatus = "running"

\* VirtualMachine::initializeClasses, run once when the program is loaded.
InitializeClasses ==
    /\ vmStatus = "created"
    /\ LET st == initializeClasses(decls)
       IN  /\ classes' = st.classes
           /\ classObjs' = st.objs
           /\ vmStatus' = IF st.ok THEN "running" ELSE "loadError"
    /\ lastCall' = "initializeClasses"
    /\ UNCHANGED <<excVars, lexVars, framesMade>>
    /\ UNCHANGED <<decls, heapVars>>

\* MemoryManager::addRootReference(&globals[g]).
AddRootReference(g) ==
    /\ Running
    /\ Len(rootReferences) < MaxRoots
    /\ rootReferences' = Append(rootReferences, g)
    /\ lastCall' = "addRootReference"
    /\ UNCHANGED <<excVars, lexVars, framesMade>>
    /\ UNCHANGED <<classVars, vmStatus, alive, allocatedObjects, background,
                   globals, fields, marked, operandStack, callStack,
                   totalAllocated, totalCollected, collectionCount>>

\* VirtualMachine::initialize: every global becomes a root.
RECURSIVE addAllGlobals(_, _)
addAllGlobals(roots, gs) ==
    IF gs = {} THEN roots
    ELSE LET g == CHOOSE x \in gs : TRUE
         IN  addAllGlobals(Append(roots, g), gs \ {g})

Initialize ==
    /\ Running
    /\ Len(rootReferences) + Cardinality(GlobalNames) <= MaxRoots
    /\ rootReferences' = addAllGlobals(rootReferences, GlobalNames)
    /\ lastCall' = "initialize"
    /\ UNCHANGED <<excVars, lexVars, framesMade>>
    /\ UNCHANGED <<classVars, vmStatus, alive, allocatedObjects, background,
                   globals, fields, marked, operandStack, callStack,
                   totalAllocated, totalCollected, collectionCount>>

\* std::find, then erase: the first occurrence goes, if there is one.
eraseFirst(roots, g) ==
    IF \E i \in 1 .. Len(roots) : roots[i] = g
    THEN LET k == CHOOSE i \in 1 .. Len(roots) :
                    roots[i] = g /\ \A j \in 1 .. i - 1 : roots[j] # g
         IN  SubSeq(roots, 1, k - 1) \o SubSeq(roots, k + 1, Len(roots))
    ELSE roots

RemoveRootReference(g) ==
    /\ Running
    /\ rootReferences' = eraseFirst(rootReferences, g)
    /\ lastCall' = "removeRootReference"
    /\ UNCHANGED <<excVars, lexVars, framesMade>>
    /\ UNCHANGED <<classVars, vmStatus, alive, allocatedObjects, background,
                   globals, fields, marked, operandStack, callStack,
                   totalAllocated, totalCollected, collectionCount>>

\* MemoryManager::collectGarbage, called from outside allocateObject.
CollectGarbage ==
    /\ Running
    /\ collectionCount < MaxCollections
    /\ \E keep \in SUBSET Dangling(allocatedObjects, alive) :
         LET r == collectGarbage(allocatedObjects, alive, fields, marked,
                                 rootReferences, globals, keep)
         IN  /\ allocatedObjects' = r.table
             /\ totalCollected' = totalCollected + r.freedSize
             /\ totalAllocated' = totalAllocated - r.freedSize
             /\ collectionCount' = collectionCount + 1
             /\ Commit(alive, fields, r.marked, globals, operandStack,
                       callStack)
    /\ lastCall' = "collectGarbage"
    /\ UNCHANGED <<excVars, lexVars, framesMade>>
    /\ UNCHANGED <<classVars, vmStatus, background, rootReferences>>

\* VirtualMachine::executeNew with MemoryManager::allocateObject: the new
\* object takes a free address, which the table may still hold from a
\* destroyed object; allocateObject collects when shouldCollectGarbage.
ExecuteNew ==
    /\ Running
    /\ Len(operandStack) < MaxStack
    /\ allocations < MaxAllocs
    /\ IF "SomeClass" \notin DOMAIN classes
       THEN /\ vmStatus' = "hostError"
            /\ UNCHANGED <<heapVars>>
       ELSE \E obj \in Addr \ alive :
            LET al1 == alive \cup {obj}
                tbl1 == allocatedObjects \cup {obj}
                tot1 == totalAllocated + ObjectSize
                collect == shouldCollectGarbage(tbl1, background, tot1)
            IN  /\ collect => collectionCount < MaxCollections
                /\ \E keep \in SUBSET Dangling(tbl1, al1) :
                     /\ ~collect => keep = {}
                     /\ LET r == IF collect
                                 THEN collectGarbage(tbl1, al1, fields, marked,
                                          rootReferences, globals, keep)
                                 ELSE [table |-> tbl1, marked |-> marked,
                                       freedSize |-> 0]
                        IN  /\ allocatedObjects' = r.table
                            /\ totalCollected' = totalCollected + r.freedSize
                            /\ totalAllocated' = tot1 - r.freedSize
                            /\ collectionCount' =
                                   collectionCount + (IF collect THEN 1 ELSE 0)
                            /\ Commit(al1, fields, r.marked, globals,
                                      Append(operandStack, obj), callStack)
                /\ vmStatus' = vmStatus
                /\ UNCHANGED <<background, rootReferences>>
    /\ lastCall' = "executeNew"
    /\ UNCHANGED <<excVars, lexVars, framesMade>>
    /\ UNCHANGED classVars

\* VirtualMachine::pop, its result dropped.
Pop ==
    /\ Running
    /\ Len(operandStack) > 0
    /\ Commit(alive, fields, marked, globals,
              SubSeq(operandStack, 1, Len(operandStack) - 1), callStack)
    /\ lastCall' = "pop"
    /\ UNCHANGED <<excVars, lexVars, framesMade>>
    /\ UNCHANGED <<classVars, vmStatus, allocatedObjects, background,
                   rootReferences, totalAllocated, totalCollected,
                   collectionCount>>

\* The running program reads a global slot onto the operand stack.
LoadGlobal(g) ==
    /\ Running
    /\ Len(operandStack) < MaxStack
    /\ Commit(alive, fields, marked, globals, Append(operandStack, globals[g]),
              callStack)
    /\ lastCall' = "loadGlobal"
    /\ UNCHANGED <<excVars, lexVars, framesMade>>
    /\ UNCHANGED <<classVars, vmStatus, allocatedObjects, background,
                   rootReferences, totalAllocated, totalCollected,
                   collectionCount>>

\* The running program assigns the popped value to a global slot.
StoreGlobal(g) ==
    /\ Running
    /\ Len(operandStack) > 0
    /\ Commit(alive, fields, marked,
              [globals EXCEPT ![g] = operandStack[Len(operandStack)]],
              SubSeq(operandStack, 1, Len(operandStack) - 1), callStack)
    /\ lastCall' = "storeGlobal"
    /\ UNCHANGED <<excVars, lexVars, framesMade>>
    /\ UNCHANGED <<classVars, vmStatus, allocatedObjects, background,
                   rootReferences, totalAllocated, totalCollected,
                   collectionCount>>

\* VirtualMachine::executeSetField: pops the value, then the object.
ExecuteSetField ==
    /\ Running
    /\ Len(operandStack) >= 2
    /\ LET n == Len(operandStack)
           value == operandStack[n]
           objectValue == operandStack[n - 1]
           rest == SubSeq(operandStack, 1, n - 2)
       IN  IF ~isObject(objectValue)
           THEN /\ vmStatus' = "hostError"
                /\ Commit(alive, fields, marked, globals, rest, callStack)
           ELSE /\ vmStatus' = vmStatus
                /\ Commit(alive,
                       [fields EXCEPT ![objectValue]["someField"] = value],
                       marked, globals, rest, callStack)
    /\ lastCall' = "executeSetField"
    /\ UNCHANGED <<excVars, lexVars, framesMade>>
    /\ UNCHANGED <<classVars, allocatedObjects, background, rootReferences,
                   totalAllocated, totalCollected, collectionCount>>

\* VirtualMachine::executeGetField: pops the object, pushes the field.
ExecuteGetField ==
    /\ Running
    /\ Len(operandStack) >= 1
    /\ LET n == Len(operandStack)
           objectValue == operandStack[n]
           rest == SubSeq(operandStack, 1, n - 1)
       IN  IF ~isObject(objectValue)
           THEN /\ vmStatus' = "hostError"
                /\ Commit(alive, fields, marked, globals, rest, callStack)
           ELSE /\ vmStatus' = vmStatus
                /\ Commit(alive, fields, marked, globals,
                       Append(rest, fields[objectValue]["someField"]),
                       callStack)
    /\ lastCall' = "executeGetField"
    /\ UNCHANGED <<excVars, lexVars, framesMade>>
    /\ UNCHANGED <<classVars, allocatedObjects, background, rootReferences,
                   totalAllocated, totalCollected, collectionCount>>

\* Every ObjectInstance is made by executeNew, of class "SomeClass".
getClass(obj) == classes["SomeClass"]

\* The frame of a call with the receiver counted as the first argument, so
\* that every parameter takes the value pushed one place before its own.
StackFrameShifted(method, receiver, args) ==
    [function |-> method.name,
     locals |-> [n \in LocalNames |->
                   IF n = "this" THEN receiver
                   ELSE IF \E i \in 1 .. Len(method.parameterNames) :
                             method.parameterNames[i] = n /\ i <= Len(args)
                        THEN (<<receiver>> \o args)[
                                CHOOSE i \in 1 .. Len(method.parameterNames) :
                                    method.parameterNames[i] = n /\ i <= Len(args)]
                        ELSE Null],
     instructionPointer |-> 0, returning |-> FALSE, id |-> 0]

\* The frame of a call: "this", then the parameters that have an argument.
StackFrame(method, receiver, args) ==
    [function |-> method.name,
     locals |-> [n \in LocalNames |->
                   IF n = "this" THEN receiver
                   ELSE IF \E i \in 1 .. Len(method.parameterNames) :
                             method.parameterNames[i] = n /\ i <= Len(args)
                        THEN args[CHOOSE i \in 1 .. Len(method.parameterNames) :
                                    method.parameterNames[i] = n /\ i <= Len(args)]
                        ELSE Null],
     instructionPointer |-> 0, returning |-> FALSE, id |-> 0]

\* The frames on the call stack that a method call pushed.
MethodFrames(cs) ==
    Cardinality({i \in 1 .. Len(cs) : cs[i].function # "main"})

\* VirtualMachine::executeMethodCall: pops argCount arguments and the
\* receiver, looks the method up, pushes the frame.
ExecuteMethodCall(methodName, argCount) ==
    /\ Running
    /\ Len(operandStack) >= argCount + 1
    /\ MethodFrames(callStack) < MaxFrames
    /\ LET n == Len(operandStack)
           args == SubSeq(operandStack, n - argCount + 1, n)
           receiver == operandStack[n - argCount]
           rest == SubSeq(operandStack, 1, n - argCount - 1)
       IN  IF ~isObject(receiver)
           THEN /\ vmStatus' = "hostError"
                /\ Commit(alive, fields, marked, globals, rest, callStack)
           ELSE LET method == lookupMethod(classObjs, getClass(receiver),
                                           methodName)
                IN  IF method = nullMethod
                    THEN /\ vmStatus' = "hostError"
                         /\ Commit(alive, fields, marked, globals, rest,
                                   callStack)
                    ELSE /\ vmStatus' = vmStatus
                         /\ Commit(alive, fields, marked, globals, rest,
                                Append(callStack,
                                   [StackFrame(method, receiver, args)
                                       EXCEPT !.id = framesMade + 1]))
    /\ framesMade' = framesMade + (Len(callStack') - Len(callStack))
    /\ lastCall' = "executeMethodCall"
    /\ UNCHANGED <<excVars, lexVars>>
    /\ UNCHANGED <<classVars, allocatedObjects, background, rootReferences,
                   totalAllocated, totalCollected, collectionCount>>

Next ==
    \/ InitializeClasses
    \/ Initialize
    \/ \E g \in GlobalNames : AddRootReference(g)
    \/ \E g \in GlobalNames : RemoveRootReference(g)
    \/ CollectGarbage
    \/ ExecuteNew
    \/ Pop
    \/ \E g \in GlobalNames : LoadGlobal(g)
    \/ \E g \in GlobalNames : StoreGlobal(g)
    \/ ExecuteSetField
    \/ ExecuteGetField
    \/ \E m \in CallNames, k \in 0 .. 1 : ExecuteMethodCall(m, k)

Spec == Init /\ [][Next]_vars


(***************************************************************************)
(* The object instructions on modules that differ in where "someField",    *)
(* the name executeSetField stores under, is declared: in SomeClass, in    *)
(* its superclass, or nowhere.                                             *)
(***************************************************************************)
SomeClassMethods ==
    << [name |-> "run", parameterNames |-> <<"p">>, isVirtual |-> FALSE],
       [name |-> "area", parameterNames |-> <<>>, isVirtual |-> TRUE] >>

VMProgramUndeclared ==
    << [name |-> "SomeClass", superClassName |-> "",
        fields |-> <<"other">>, methods |-> SomeClassMethods] >>

VMProgramInherited ==
    << [name |-> "Base", superClassName |-> "",
        fields |-> <<"someField">>, methods |-> <<>>],
       [name |-> "SomeClass", superClassName |-> "Base",
        fields |-> <<"other">>, methods |-> SomeClassMethods] >>

FieldPrograms == {VMProgram, VMProgramUndeclared, VMProgramInherited}

FieldInit ==
    /\ decls \in FieldPrograms
    /\ classes = EmptyMap
    /\ classObjs = <<>>
    /\ vmStatus = "created"
    /\ lastCall = "construct"
    /\ HeapInit
    /\ background = 0
    /\ program = EmptyMap
    /\ ControlInit

FieldNext ==
    \/ InitializeClasses
    \/ ExecuteNew
    \/ Pop
    \/ \E g \in GlobalNames : LoadGlobal(g)
    \/ \E g \in GlobalNames : StoreGlobal(g)
    \/ ExecuteSetField
    \/ ExecuteGetField

FieldSpec == FieldInit /\ [][FieldNext]_vars


(***************************************************************************)
(* Class loading on its own: every order of three class declarations,      *)
(* each with any declared or undeclared superclass name and with method    *)
(* "m" absent, virtual or non-virtual.                                     *)
(***************************************************************************)
ClassNames == {"Root", "Middle", "Leaf"}
SuperNames == ClassNames \cup {"", "Ghost"}
MethodKinds == {"none", "virtual", "plain"}

OwnFields(c) ==
    IF c = "Root" THEN <<"x", "y">>
    ELSE IF c = "Middle" THEN <<"r">>
    ELSE <<"h">>

ClassDecl(c, sup, kind) ==
    [name |-> c, superClassName |-> sup, fields |-> OwnFields(c),
     methods |-> IF kind = "none" THEN <<>>
                 ELSE << [name |-> "m", parameterNames |-> <<>>,
                          isVirtual |-> (kind = "virtual")] >>]

DeclOrders ==
    {o \in [1 .. Cardinality(ClassNames) -> ClassNames] :
        \A i, j \in DOMAIN o : i # j => o[i] # o[j]}

DeclLists ==
    {[i \in DOMAIN o |-> ClassDecl(o[i], sup[o[i]], kind[o[i]])] :
        o \in DeclOrders, sup \in [ClassNames -> SuperNames],
        kind \in [ClassNames -> MethodKinds]}

ClassInit ==
    /\ decls \in DeclLists
    /\ classes = EmptyMap
    /\ classObjs = <<>>
    /\ vmStatus = "created"
    /\ lastCall = "construct"
    /\ HeapInit
    /\ background = 0
    /\ program = EmptyMap
    /\ ControlInit

ClassNext == InitializeClasses

ClassSpec == ClassInit /\ [][ClassNext]_vars


(***************************************************************************)
(* Exception handling (section 5) under the interpreter loop.  A function  *)
(* is a sequence of instructions; instruction positions count from 0, as   *)
(* StackFrame::instructionPointer does.                                    *)
(***************************************************************************)
Nop ==
    [op |-> "nop", name |-> "", message |-> "", argCount |-> 0,
     catchStart |-> 0, finallyStart |-> 0, tryEnd |-> 0]
New == [Nop EXCEPT !.op = "new", !.name = "SomeClass"]
Call(m, k) == [Nop EXCEPT !.op = "call", !.name = m, !.argCount = k]
Return == [Nop EXCEPT !.op = "return"]
Throw(type, message) ==
    [Nop EXCEPT !.op = "throw", !.name = type, !.message = message]
TryEnd == [Nop EXCEPT !.op = "tryEnd"]
\* TryBegin names its catch block and its finally block (0: none); tryEnd is
\* the position of the TryEnd instruction that closes the block in the text.
TryBegin(catch, finally, end) ==
    [Nop EXCEPT !.op = "tryBegin", !.name = "e", !.catchStart = catch,
                !.finallyStart = finally, !.tryEnd = end]

RunThrows == <<Nop, Nop, Throw("E1", "m1"), Return>>

\* main calls run, which throws; no try block anywhere.
PlainThrow ==
    [main |-> <<Nop, New, Call("run", 0), Return>>, run |-> RunThrows]

\* main calls run, which returns.
PlainReturn ==
    [main |-> <<Nop, New, Call("run", 0), Return>>,
     run |-> <<Nop, Nop, Return>>]

\* try { throw E1 } catch (e) { } finally { }, all in main.
TryCatchFinally ==
    [main |-> <<Nop, TryBegin(4, 6, 3), Throw("E1", "m1"), TryEnd,
                Nop, Nop, Nop, Return>>,
     run |-> <<Nop, Return>>]

\* The same, with a finally block that throws E2.
FinallyThrows ==
    [main |-> <<Nop, TryBegin(4, 6, 3), Throw("E1", "m1"), TryEnd,
                Nop, Return, Nop, Throw("E2", "m2"), Return>>,
     run |-> <<Nop, Return>>]

\* main's try block (with catch, without finally) is over when main calls
\* run, which throws outside every try block.
ThrowAfterTry ==
    [main |-> <<Nop, TryBegin(7, 0, 3), Nop, TryEnd, New, Call("run", 0),
                Return, Nop, Return>>,
     run |-> RunThrows]

\* main's try block, with a finally block, is over when main calls run,
\* which throws E1 at position 3 and holds a throw of E2 at position 5.
ThrowAtEndOfTry ==
    [main |-> <<Nop, TryBegin(8, 4, 3), Nop, TryEnd, Nop, New,
                Call("run", 0), Return, Nop, Return>>,
     run |-> <<Nop, Nop, Nop, Throw("E1", "m1"), Nop, Throw("E2", "m2"),
               Return>>]

\* main calls run inside its try block; run throws.
CallInTry ==
    [main |-> <<Nop, New, TryBegin(6, 0, 4), Call("run", 0), TryEnd, Return,
                Nop, Return>>,
     run |-> <<Nop, Throw("E1", "m1"), Return>>]

\* main calls, inside its try block, a method that lookupMethod does not
\* find.
CallUnresolvedInTry ==
    [main |-> <<Nop, New, TryBegin(6, 0, 4), Call("area", 0), TryEnd, Return,
                Nop, Return>>,
     run |-> <<Nop, Return>>]

\* try { try { throw E1 } catch (e) { } } catch (e) { }, all in main: the
\* inner block's catch entry is 5, the outer block's is 8.
NestedTry ==
    [main |-> <<Nop, TryBegin(8, 0, 6), TryBegin(5, 0, 4), Throw("E1", "m1"),
                TryEnd, Nop, TryEnd, Return, Nop, Return>>,
     run |-> <<Nop, Return>>]

\* Two nested try blocks that run to their ends: nothing is thrown.
NestedTryCompletes ==
    [main |-> <<Nop, TryBegin(7, 0, 5), TryBegin(7, 0, 4), Nop, TryEnd,
                TryEnd, Return, Nop, Return>>,
     run |-> <<Nop, Return>>]

\* main calls run inside its try block (positions 2 to 4); run throws E1
\* inside its own try block (positions 4 to 6), whose finally body (at 8)
\* throws E2.
FinallyThrowsInCallee ==
    [main |-> <<Nop, New, TryBegin(6, 0, 4), Call("run", 0), TryEnd, Return,
                Nop, Nop, Return>>,
     run |-> <<Nop, Nop, Nop, Nop, TryBegin(7, 8, 6), Throw("E1", "m1"),
               TryEnd, Return, Nop, Throw("E2", "m2"), Return>>]

Programs ==
    {PlainThrow, PlainReturn, TryCatchFinally, FinallyThrows, ThrowAfterTry,
     ThrowAtEndOfTry, CallInTry, CallUnresolvedInTry, NestedTry,
     NestedTryCompletes, FinallyThrowsInCallee}

FunctionNames == {"main", "run"}
CodeEnd ==
    CHOOSE n \in 0 .. 64 :
        /\ \A pr \in Programs : \A f \in FunctionNames : Len(pr[f]) <= n
        /\ \E pr \in Programs : \E f \in FunctionNames : Len(pr[f]) = n

\* The values an uninitialized size_t may turn out to hold, as far as the
\* comparisons of findHandler can tell them apart.
Indeterminate == 0 .. CodeEnd

Top(cs) == cs[Len(cs)]
PopFrame(cs) == SubSeq(cs, 1, Len(cs) - 1)
InCode(frame) == frame.instructionPointer < Len(program[frame.function])
getCurrentInstruction(frame) ==
    program[frame.function][frame.instructionPointer + 1]

\* ExceptionHandler.  owner (the frame that executed the TryBegin) and
\* textEnd (where the try block ends in the text) record history; no
\* operation of the machine reads them.
ExceptionHandler(start, end, catch, finally, var, owner, textEnd) ==
    [tryStart |-> start, tryEnd |-> end, catchStart |-> catch,
     finallyStart |-> finally, exceptionVar |-> var, owner |-> owner,
     textEnd |-> textEnd]

\* findHandler: the index of the first registered handler whose range holds
\* the position, 0 for nullptr.  Position -1 stands for the size_t that
\* frame.getInstructionPointer() - 1 wraps to at position 0: no range holds it.
findHandler(hs, position) ==
    LET hit == {i \in 1 .. Len(hs) :
                   position >= hs[i].tryStart /\ position < hs[i].tryEnd}
    IN  IF hit = {} THEN 0
        ELSE CHOOSE i \in hit : \A j \in hit : i <= j

\* currentException = std::make_shared<Exception>(type, message, data), with
\* the exception that was in flight not replaced.
setCurrentExceptionKeepFirst(cur, type, message) ==
    IF cur # NoException THEN cur ELSE [type |-> type, message |-> message]

setCurrentException(cur, type, message) ==
    [type |-> type, message |-> message]

\* The unwinding loop of throwException from its head (unwind) and from the
\* pop of the top frame (discard).  The result is the call stack and how
\* the loop was left: "handled", "uncaught", "finally" (executeUntilReturn
\* is to run the finally block) or "none" (the loop had nothing to do).
RECURSIVE unwind(_, _, _)
RECURSIVE discard(_, _, _)
unwind(cs, hs, data) ==
    IF cs = <<>> THEN [callStack |-> cs, outcome |-> "none"]
    ELSE LET frame == Top(cs)
             h == findHandler(hs, frame.instructionPointer)
             f == findHandler(hs, frame.instructionPointer - 1)
         IN  IF h # 0
             THEN [callStack |->
                      [cs EXCEPT ![Len(cs)] =
                          [frame EXCEPT
                              !.instructionPointer = hs[h].catchStart,
                              !.locals[hs[h].exceptionVar] = data]],
                   outcome |-> "handled"]
             ELSE IF f # 0 /\ hs[f].finallyStart # 0
             THEN [callStack |->
                      [cs EXCEPT ![Len(cs)].instructionPointer =
                                     hs[f].finallyStart],
                   outcome |-> "finally"]
             ELSE discard(cs, hs, data)

discard(cs, hs, data) ==
    IF PopFrame(cs) = <<>>
    THEN [callStack |-> <<>>, outcome |-> "uncaught"]
    ELSE unwind(PopFrame(cs), hs, data)

ExcInit ==
    /\ program \in Programs
    /\ decls = VMProgram
    /\ classes = EmptyMap
    /\ classObjs = <<>>
    /\ vmStatus = "created"
    /\ lastCall = "construct"
    /\ HeapInit
    /\ background = 0
    /\ ControlInit

\* The interpreter loop is about to execute the instruction at the top
\* frame's position: execution of the function has begun, or the last
\* instruction is done and the position advanced.
ReadyCalls == {"executeFunction", "advance", "executeUntilReturn"}
DoneCalls ==
    {"executeNew", "executeMethodCall", "executeTryBegin", "executeTryEnd",
     "executeThrow", "throwException", "executeReturn", "executeInstruction"}

Ready ==
    /\ Running
    /\ callStack # <<>>
    /\ lastCall \in ReadyCalls
    /\ ~Top(callStack).returning
    /\ InCode(Top(callStack))

At(op) == Ready /\ getCurrentInstruction(Top(callStack)).op = op

\* vm.executeFunction("main", {}): the frame of main.
ExecuteFunction ==
    /\ Running
    /\ lastCall = "initializeClasses"
    /\ "main" \in DOMAIN program
    /\ Commit(alive, fields, marked, globals, operandStack,
              Append(callStack,
                     [function |-> "main",
                      locals |-> [n \in LocalNames |-> Null],
                      instructionPointer |-> 0, returning |-> FALSE,
                      id |-> framesMade + 1]))
    /\ framesMade' = framesMade + 1
    /\ lastCall' = "executeFunction"
    /\ UNCHANGED <<classVars, vmStatus, allocatedObjects, background,
                   rootReferences, totalAllocated, totalCollected,
                   collectionCount, excVars, lexVars>>

\* executeInstruction on a New or a method call instruction.
RunNew == At("new") /\ ExecuteNew

RunMethodCall ==
    /\ At("call")
    /\ ExecuteMethodCall(getCurrentInstruction(Top(callStack)).name,
                         getCurrentInstruction(Top(callStack)).argCount)

\* An instruction that changes nothing of the state kept here.
ExecuteOther ==
    /\ At("nop")
    /\ lastCall' = "executeInstruction"
    /\ UNCHANGED <<classVars, vmStatus, heapVars, excVars, lexVars,
                   framesMade>>

\* executeTryBegin: tryStart, catchStart, finallyStart and exceptionVar are
\* set; tryEnd is left as the handler object was made, uninitialized.
ExecuteTryBegin ==
    /\ At("tryBegin")
    /\ \E garbage \in Indeterminate :
         LET frame == Top(callStack)
             inst == getCurrentInstruction(frame)
         IN  exceptionHandlers' =
                 Append(exceptionHandlers,
                        ExceptionHandler(frame.instructionPointer, garbage,
                            inst.catchStart, inst.finallyStart, inst.name,
                            frame.id, inst.tryEnd))
    /\ lastCall' = "executeTryBegin"
    /\ UNCHANGED <<classVars, vmStatus, heapVars, program, currentException,
                   reported, untilReturn, unwindingFrames, lexVars,
                   framesMade>>

\* executeTryEnd: the last registered handler takes the current position.
ExecuteTryEnd ==
    /\ At("tryEnd")
    /\ exceptionHandlers' =
           IF exceptionHandlers = <<>> THEN exceptionHandlers
           ELSE [exceptionHandlers EXCEPT
                    ![Len(exceptionHandlers)].tryEnd =
                        Top(callStack).instructionPointer]
    /\ lastCall' = "executeTryEnd"
    /\ UNCHANGED <<classVars, vmStatus, heapVars, program, currentException,
                   reported, untilReturn, unwindingFrames, lexVars,
                   framesMade>>

\* executeReturn: the frame is marked as returning; the loop that runs the
\* frame sees isReturning().
ExecuteReturn ==
    /\ At("return")
    /\ Commit(alive, fields, marked, globals, operandStack,
              [callStack EXCEPT ![Len(callStack)].returning = TRUE])
    /\ lastCall' = "executeReturn"
    /\ UNCHANGED <<classVars, vmStatus, allocatedObjects, background,
                   rootReferences, totalAllocated, totalCollected,
                   collectionCount, excVars, lexVars, framesMade>>

\* The state after throwException's loop was left with r: a finally block
\* is run by executeUntilReturn, which begins at the block's first
\* instruction; otherwise throwException returns to executeInstruction.
Unwound(r, exc, pending) ==
    /\ Commit(alive, fields, marked, globals, operandStack, r.callStack)
    /\ reported' = IF r.outcome = "uncaught" THEN Append(reported, exc)
                   ELSE reported
    /\ untilReturn' = pending + (IF r.outcome = "finally" THEN 1 ELSE 0)
    /\ unwindingFrames' =
           IF r.outcome = "finally"
           THEN Append(SubSeq(unwindingFrames, 1, pending),
                       Top(r.callStack).id)
           ELSE SubSeq(unwindingFrames, 1, pending)
    /\ lastCall' = IF r.outcome = "finally" THEN "executeUntilReturn"
                   ELSE IF pending = untilReturn THEN "executeThrow"
                   ELSE "throwException"

\* executeThrow and throwException, as far as its return or its call of
\* executeUntilReturn.  The Throw instructions carry no data operand.
\* executeUntilReturn calls nest (a finally body that throws may be run
\* again by the nested throwException); the model follows MaxNesting of them.
ExecuteThrow ==
    /\ At("throw")
    /\ unwind(callStack, exceptionHandlers, Null).outcome = "finally" =>
           untilReturn < MaxNesting
    /\ LET inst == getCurrentInstruction(Top(callStack))
           exc == setCurrentException(currentException, inst.name,
                                      inst.message)
       IN  /\ currentException' = exc
           /\ Unwound(unwind(callStack, exceptionHandlers, Null), exc,
                      untilReturn)
    /\ UNCHANGED <<classVars, vmStatus, allocatedObjects, background,
                   rootReferences, totalAllocated, totalCollected,
                   collectionCount, program, exceptionHandlers, lexVars,
                   framesMade>>

\* The loop of vm.run, after executeInstruction: the position of the frame
\* that is now on top advances, as in executeUntilReturn.
AdvanceRun ==
    /\ Running
    /\ lastCall \in DoneCalls
    /\ untilReturn = 0
    /\ callStack # <<>>
    /\ ~Top(callStack).returning
    /\ Commit(alive, fields, marked, globals, operandStack,
              [callStack EXCEPT ![Len(callStack)].instructionPointer = @ + 1])
    /\ lastCall' = "advance"
    /\ UNCHANGED <<classVars, vmStatus, allocatedObjects, background,
                   rootReferences, totalAllocated, totalCollected,
                   collectionCount, excVars, lexVars, framesMade>>

\* The loop of vm.run on a returning frame: the frame is popped and the
\* caller goes on behind its call instruction.
ReturnToCaller ==
    /\ Running
    /\ lastCall \in DoneCalls
    /\ untilReturn = 0
    /\ callStack # <<>>
    /\ Top(callStack).returning
    /\ LET rest == PopFrame(callStack)
       IN  Commit(alive, fields, marked, globals, operandStack,
                  IF rest = <<>> THEN rest
                  ELSE [rest EXCEPT ![Len(rest)].instructionPointer = @ + 1])
    /\ lastCall' = "advance"
    /\ UNCHANGED <<classVars, vmStatus, allocatedObjects, background,
                   rootReferences, totalAllocated, totalCollected,
                   collectionCount, excVars, lexVars, framesMade>>

\* executeUntilReturn after executeInstruction: currentFrame, the top frame,
\* is not returning and its position advances.
AdvanceUntilReturn ==
    /\ Running
    /\ lastCall \in DoneCalls
    /\ untilReturn > 0
    /\ callStack # <<>>
    /\ ~Top(callStack).returning
    /\ Commit(alive, fields, marked, globals, operandStack,
              [callStack EXCEPT ![Len(callStack)].instructionPointer = @ + 1])
    /\ lastCall' = "advance"
    /\ UNCHANGED <<classVars, vmStatus, allocatedObjects, background,
                   rootReferences, totalAllocated, totalCollected,
                   collectionCount, excVars, lexVars, framesMade>>

\* executeUntilReturn returns to the throwException that called it, which
\* pops the top frame and goes on unwinding.  With the call stack emptied
\* by a throw inside the finally block, currentFrame is null where
\* executeUntilReturn reads isReturning(), and pop_back() is called on an
\* empty vector: the machine crashes, or goes on with the vector empty.
ResumeThrowException ==
    /\ Running
    /\ lastCall \in DoneCalls
    /\ untilReturn > 0
    /\ IF callStack = <<>> THEN TRUE ELSE Top(callStack).returning
    /\ IF callStack # <<>>
       THEN /\ Unwound(discard(callStack, exceptionHandlers, Null),
                       currentException, untilReturn - 1)
            /\ vmStatus' = vmStatus
       ELSE \E crash \in BOOLEAN :
              IF crash
              THEN /\ vmStatus' = "crashed"
                   /\ lastCall' = "throwException"
                   /\ UNCHANGED <<heapVars, reported, untilReturn,
                                  unwindingFrames>>
              ELSE /\ Unwound([callStack |-> <<>>, outcome |-> "uncaught"],
                              currentException, untilReturn - 1)
                   /\ vmStatus' = vmStatus
    /\ UNCHANGED <<classVars, allocatedObjects, background, rootReferences,
                   totalAllocated, totalCollected, collectionCount, program,
                   exceptionHandlers, currentException, lexVars, framesMade>>

ExcNext ==
    \/ InitializeClasses
    \/ ExecuteFunction
    \/ RunNew
    \/ RunMethodCall
    \/ ExecuteOther
    \/ ExecuteTryBegin
    \/ ExecuteTryEnd
    \/ ExecuteReturn
    \/ ExecuteThrow
    \/ AdvanceRun
    \/ ReturnToCaller
    \/ AdvanceUntilReturn
    \/ ResumeThrowException

ExcSpec == ExcInit /\ [][ExcNext]_vars


(***************************************************************************)
(* Lexer::tokenize, on every source string of at most MaxLen characters.   *)
(***************************************************************************)
Alphabet == {"x", "1", " "}
Sources == UNION {[1 .. n -> Alphabet] : n \in 0 .. MaxLen}

Token(type, value, line, column) ==
    [type |-> type, value |-> value, line |-> line, column |-> column]

\* A tokenize that returns its vector before the end-of-input token is pushed.
tokenizeWithoutEOF(src) ==
    [i \in 1 .. Len(src) |-> Token("UNKNOWN", src[i], 0, 0)]

tokenize(src) ==
    Append(<<>>, Token("EOF_TOKEN", "", 0, 0))

LexInit ==
    /\ source \in Sources
    /\ tokens = <<>>
    /\ decls = VMProgram
    /\ classes = EmptyMap
    /\ classObjs = <<>>
    /\ vmStatus = "created"
    /\ lastCall = "construct"
    /\ HeapInit
    /\ background = 0
    /\ program = EmptyMap
    /\ exceptionHandlers = <<>>
    /\ currentException = NoException
    /\ reported = <<>>
    /\ untilReturn = 0
    /\ unwindingFrames = <<>>
    /\ framesMade = 0

\* main: lexer.tokenize(source) on the content of the script file.
Tokenize ==
    /\ lastCall = "construct"
    /\ tokens' = tokenize(source)
    /\ lastCall' = "tokenize"
    /\ UNCHANGED <<classVars, vmStatus, heapVars, excVars, framesMade, source>>

LexNext == Tokenize

LexSpec == LexInit /\ [][LexNext]_vars


(***************************************************************************)
(* What the claims speak of.                                               *)
(***************************************************************************)
Loaded == vmStatus = "running"
DeclOf(c) == decls[CHOOSE i \in DOMAIN decls : decls[i].name = c]
Declares(c, n) ==
    \E i \in DOMAIN DeclOf(c).methods : DeclOf(c).methods[i].name = n
DeclaresVirtual(c, n) ==
    \E i \in DOMAIN DeclOf(c).methods :
        DeclOf(c).methods[i].name = n /\ DeclOf(c).methods[i].isVirtual

\* The declared ancestors of class c, nearest first, as far as k levels.
RECURSIVE DeclaredChain(_, _)
DeclaredChain(c, k) ==
    IF k = 0 \/ DeclOf(c).superClassName \notin ClassNames THEN <<>>
    ELSE <<DeclOf(c).superClassName>>
         \o DeclaredChain(DeclOf(c).superClassName, k - 1)

\* The declared chain of c ends at a class without superclass.
Rooted(c) ==
    LET ch == DeclaredChain(c, Cardinality(ClassNames))
        top == IF ch = <<>> THEN c ELSE ch[Len(ch)]
    IN  Len(ch) < Cardinality(ClassNames) /\ DeclOf(top).superClassName = ""

RECURSIVE FieldsDownTo(_, _)
FieldsDownTo(ch, i) ==
    IF i = 0 THEN <<>> ELSE OwnFields(ch[i]) \o FieldsDownTo(ch, i - 1)

\* The superclass handles above handle h, nearest first.
Handles == 1 .. Len(classObjs)
SuperHandles(h) ==
    LET up[k \in 0 .. Len(classObjs)] ==
            IF k = 0 THEN h
            ELSE IF up[k - 1] = Null THEN Null
            ELSE classObjs[up[k - 1]].superClass
    IN  {up[k] : k \in 1 .. Len(classObjs)} \ {Null}

IsThreeLevelChain ==
    /\ DeclOf("Root").superClassName = ""
    /\ DeclOf("Middle").superClassName = "Root"
    /\ DeclOf("Leaf").superClassName = "Middle"
    /\ DeclaresVirtual("Root", "m")
    /\ Declares("Middle", "m")
    /\ ~Declares("Leaf", "m")

\* C7 (inheritance flattening): for Root <- Middle <- Leaf where Root declares
\* virtual m, Middle declares m and Leaf does not, lookupMethod on Leaf's
\* class with "m" returns the descriptor Middle declared.
C7_LeafResolvesToMiddle ==
    (Loaded /\ IsThreeLevelChain) =>
        LET d == lookupMethod(classObjs, classes["Leaf"], "m")
        IN  /\ d # nullMethod
            /\ d = classObjs[classes["Middle"]].methods["m"]

\* C8 (field ordering): getAllFieldNames of every loaded class is the root
\* ancestor's own fields, then each descendant's, then the class's own.
C8_FieldOrder ==
    Loaded =>
        \A c \in ClassNames :
            Rooted(c) =>
                getAllFieldNames(classObjs, classes[c]) =
                    FieldsDownTo(DeclaredChain(c, Cardinality(ClassNames)),
                                 Len(DeclaredChain(c, Cardinality(ClassNames))))
                    \o OwnFields(c)

\* C9: isSubclassOf(a, b) holds exactly when a is b or b is on a's
\* superclass chain; it holds of (a, a) and never of (a, null).
C9_IsSubclassOf ==
    Loaded =>
        \A a \in Handles :
            /\ \A b \in Handles :
                 isSubclassOf(classObjs, a, b) <=> (a = b \/ b \in SuperHandles(a))
            /\ isSubclassOf(classObjs, a, a)
            /\ ~isSubclassOf(classObjs, a, Null)

\* C9's case: a class two levels below another, and a class that is not a
\* subclass of another one of the table.
C9_Witness ==
    /\ Loaded
    /\ \E a, b \in {classes[c] : c \in ClassNames} :
         /\ a # b
         /\ b \in SuperHandles(a)
         /\ b # classObjs[a].superClass
         /\ isSubclassOf(classObjs, a, b)
         /\ ~isSubclassOf(classObjs, b, a)

\* C10: lookupMethod(c, n) is not-found exactly when neither c nor a class
\* on c's superclass chain has a method named n.
C10_LookupFindsDeclared ==
    Loaded =>
        \A c \in ClassNames :
            LET h == classes[c]
            IN  (lookupMethod(classObjs, h, "m") = nullMethod) <=>
                    (\A k \in {h} \cup SuperHandles(h) :
                        "m" \notin DOMAIN classObjs[k].methods)

\* Some declaration names a superclass that no declaration declares.
DeclaredNames == {decls[i].name : i \in DOMAIN decls}
NamesUndeclaredSuper ==
    \E i \in DOMAIN decls :
        decls[i].superClassName \notin DeclaredNames \cup {""}

\* C11: when some declaration names an undeclared superclass, class
\* initialization ends in a load error and the machine never runs.
C11_UndeclaredSuperIsLoadError ==
    (vmStatus # "created" /\ NamesUndeclaredSuper) => vmStatus = "loadError"

\* C11's case: initialization has run on declarations one of which names the
\* undeclared "Ghost", behind a declaration that was linked without error.
C11_Witness ==
    /\ vmStatus = "loadError"
    /\ decls[1].superClassName \in DeclaredNames
    /\ decls[Len(decls)].superClassName = "Ghost"

\* The declared superclass relation has a cycle.
DeclaredCycle ==
    \E c \in DeclaredNames :
        \E i \in 1 .. Len(DeclaredChain(c, Cardinality(ClassNames))) :
            DeclaredChain(c, Cardinality(ClassNames))[i] = c

\* C12: class initialization never completes successfully on declarations
\* whose superclass relation has a cycle; it ends in a load error.
C12_CycleIsLoadError ==
    (vmStatus # "created" /\ DeclaredCycle) => vmStatus = "loadError"

\* The try blocks that frame executed the TryBegin of and whose text, from
\* the TryBegin to the TryEnd, holds the frame's position.
OwnRegions(frame) ==
    {i \in 1 .. Len(exceptionHandlers) :
        /\ exceptionHandlers[i].owner = frame.id
        /\ exceptionHandlers[i].tryStart <= frame.instructionPointer
        /\ frame.instructionPointer < exceptionHandlers[i].textEnd}

\* The exception the Throw instruction at the top frame's position throws.
Thrown ==
    [type |-> getCurrentInstruction(Top(callStack)).name,
     message |-> getCurrentInstruction(Top(callStack)).message]

\* The method call at the top frame's position has an object as receiver
\* and a method name that lookupMethod does not find.
CallsUnresolved ==
    /\ At("call")
    /\ LET inst == getCurrentInstruction(Top(callStack))
           n == Len(operandStack)
       IN  /\ n >= inst.argCount + 1
           /\ isObject(operandStack[n - inst.argCount])
           /\ lookupMethod(classObjs,
                           getClass(operandStack[n - inst.argCount]),
                           inst.name) = nullMethod

\* C14: a method call that cannot resolve the method name, made inside a try
\* block of the calling frame, raises an exception through throwException
\* and the machine keeps running; it is not a host-level error.
C14_UnresolvedCallIsThrown ==
    [][(CallsUnresolved /\ OwnRegions(Top(callStack)) # {}) =>
          (vmStatus' = "running" /\ currentException' # NoException)]_vars

\* C15 (handler scoping): a throw while the top frame is inside a try block
\* that this frame registered sets the top frame's position to that block's
\* catch entry, pops no frame and leaves every frame below unchanged.
C15_CaughtInSameFrame ==
    [][(At("throw") /\ OwnRegions(Top(callStack)) # {}) =>
          /\ Len(callStack') = Len(callStack)
          /\ \A i \in 1 .. Len(callStack) - 1 : callStack'[i] = callStack[i]
          /\ \E h \in OwnRegions(Top(callStack)) :
                Top(callStack').instructionPointer =
                    exceptionHandlers[h].catchStart]_vars

\* No frame on the call stack is inside a try block.
NoFrameEnclosed ==
    \A i \in 1 .. Len(callStack) : OwnRegions(callStack[i]) = {}

NoFinallyRegistered ==
    \A i \in 1 .. Len(exceptionHandlers) :
        exceptionHandlers[i].finallyStart = 0

\* The program has ended with an uncaught exception.
Propagated ==
    /\ callStack = <<>>
    /\ reported # <<>>
    /\ untilReturn = 0

\* C16 (uncaught exception): a throw while no frame on the call stack is
\* inside a try block (and no finally block is registered) discards every
\* frame and reports exactly the thrown type and message; after that no
\* instruction is executed.
C16_UncaughtPropagates ==
    [][/\ (At("throw") /\ NoFrameEnclosed /\ NoFinallyRegistered) =>
             /\ callStack' = <<>>
             /\ reported' = Append(reported, Thrown)
             /\ currentException' = Thrown
             /\ Propagated'
       /\ ~Propagated]_vars

\* The try blocks of OwnRegions that have a finally block.
OwnFinallyRegions(frame) ==
    {i \in OwnRegions(frame) : exceptionHandlers[i].finallyStart # 0}

\* C17 (finally always runs), the exit by an exception: a throw while the top
\* frame is inside a try block with a finally block does not discard the
\* frame with the finally body not run; the frame goes to the block's catch
\* entry or executeUntilReturn runs the finally body.
C17_FinallyRunsOnUnwind ==
    [][(At("throw") /\ OwnFinallyRegions(Top(callStack)) # {}) =>
          /\ Len(callStack') = Len(callStack)
          /\ \E h \in OwnFinallyRegions(Top(callStack)) :
                \/ Top(callStack').instructionPointer =
                       exceptionHandlers[h].catchStart
                \/ /\ Top(callStack').instructionPointer =
                          exceptionHandlers[h].finallyStart
                   /\ untilReturn' = untilReturn + 1]_vars

\* C18: an exception thrown while executeUntilReturn runs a finally body
\* becomes the exception in flight, the first one being dropped, and every
\* uncaught-exception report carries the type and message of the exception
\* in flight.
C18_SecondExceptionReplaces ==
    [][/\ (At("throw") /\ untilReturn > 0) => currentException' = Thrown
       /\ \A i \in Len(reported) + 1 .. Len(reported') :
             reported'[i] = currentException']_vars

\* C18's case: E2, thrown from a finally body that ran while E1 was
\* unwinding, is the exception in flight and the one reported.
C18_Witness ==
    /\ lastCall = "executeThrow"
    /\ untilReturn > 0
    /\ currentException = [type |-> "E2", message |-> "m2"]
    /\ reported = <<currentException>>

\* C19: tokenize returns a non-empty sequence whose last token is
\* EOF_TOKEN; for the empty source it returns exactly one token, EOF_TOKEN.
C19_TokenizeEndsWithEOF ==
    lastCall = "tokenize" =>
        /\ Len(tokens) >= 1
        /\ tokens[Len(tokens)].type = "EOF_TOKEN"
        /\ source = <<>> =>
              (Len(tokens) = 1 /\ tokens[1].type = "EOF_TOKEN")

\* C19's case: tokenize has returned for a source that is not empty.
C19_Witness ==
    /\ lastCall = "tokenize"
    /\ Len(source) = MaxLen
    /\ tokens # <<>>

\* C20: after class initialization the superclass handle of the entry of
\* every class C with declared superclass S is the class table's entry of S,
\* in whatever order the classes are declared (the declared chain of C
\* being one that ends at a class without superclass).
C20_SuperHandleIsTableEntry ==
    Loaded =>
        \A c \in ClassNames :
            (Rooted(c) /\ DeclOf(c).superClassName # "") =>
                classObjs[classes[c]].superClass =
                    classes[DeclOf(c).superClassName]

\* The objects a registered root leads to, through object-valued fields.
RootTargets ==
    {globals[rootReferences[i]] : i \in 1 .. Len(rootReferences)} \ {Null}

RECURSIVE ReachableFrom(_)
ReachableFrom(S) ==
    LET more == {fields[o][f] : o \in S, f \in FieldNames} \ (S \cup {Null})
    IN  IF more = {} THEN S ELSE ReachableFrom(S \cup more)

ReachableFromRoots == ReachableFrom(RootTargets)

\* A step that ran a collection: CollectGarbage, or an ExecuteNew whose
\* allocateObject collected.
Collected == collectionCount' # collectionCount

\* C1 (retention): a collection removes from the table no object that a
\* registered root reached, through object-valued fields, just before it.
C1_Retention ==
    [][Collected =>
          \A o \in ReachableFromRoots \cap allocatedObjects :
              o \in allocatedObjects']_vars

\* C2 (reclamation): after a collection the table holds no entry that was
\* unreachable from every registered root before it.
C2_Reclamation ==
    [][Collected =>
          \A o \in allocatedObjects' : o \in ReachableFromRoots]_vars

\* o is referred to by a local of a frame on the call stack and by nothing
\* else.
OnlyFrameLocal(o) ==
    /\ o \in FrameRefs(callStack)
    /\ o \notin StackRefs(operandStack)
    /\ \A g \in GlobalNames : globals[g] # o
    /\ \A a \in alive : \A f \in FieldNames : fields[a][f] # o

\* C3 (no premature collection): an object whose only reference is a local
\* of a frame on the call stack stays in the table across a collection run
\* while the frame is active.
C3_FrameLocalKept ==
    [][(Collected /\ callStack' = callStack) =>
          \A o \in allocatedObjects :
              OnlyFrameLocal(o) => o \in allocatedObjects']_vars

\* C4 (idempotent collection): of two collectGarbage calls in a row, the
\* second removes no object from the table.
C4_SecondCollectRemovesNothing ==
    [][(lastCall = "collectGarbage" /\ lastCall' = "collectGarbage") =>
          \A o \in allocatedObjects \cap alive : o \in allocatedObjects']_vars

\* C5: the object allocateObject returns (which executeNew pushes) is an
\* entry of the table when the call returns.
C5_AllocatedIsRegistered ==
    [][(lastCall' = "executeNew" /\ vmStatus' = "running"
            /\ Len(operandStack') = Len(operandStack) + 1) =>
          operandStack'[Len(operandStack')] \in allocatedObjects']_vars

C6_RefsAreLive ==
    /\ \A i \in 1 .. Len(rootReferences) :
         globals[rootReferences[i]] \in allocatedObjects \cup {Null}
    /\ \A o \in allocatedObjects \cap alive : \A f \in FieldNames :
         fields[o][f] \in allocatedObjects \cup {Null}

\* C21: after class initialization the vtable of every class holds every
\* entry of its superclass's vtable, except that each name for which the
\* class itself has a virtual method maps to the class's own descriptor
\* (for every class whose declared chain ends at a class without superclass).
C21_VTableFlattened ==
    Loaded =>
        \A c \in {x \in ClassNames : Rooted(x)} :
            LET o == classObjs[classes[c]]
                base == IF o.superClass # Null
                        THEN classObjs[o.superClass].vtable
                        ELSE EmptyMap
                own == {n \in DOMAIN o.methods : o.methods[n].isVirtual}
            IN  /\ DOMAIN o.vtable = (DOMAIN base) \cup own
                /\ \A n \in DOMAIN o.vtable :
                     o.vtable[n] = IF n \in own THEN o.methods[n] ELSE base[n]

\* The slots the collector's root set holds, and the local-variable slots of
\* the frames on the call stack.  addRootReference is called with the address
\* of a global slot only.
RootSlots ==
    {<<"global", 0, rootReferences[i]>> : i \in 1 .. Len(rootReferences)}
FrameSlots ==
    {<<"local", callStack[i].id, n>> : i \in 1 .. Len(callStack),
                                       n \in LocalNames}

\* C22 (root-set invariant): in every reachable state the root set holds
\* every local-variable slot of every frame on the call stack, and a slot of
\* a frame is a root only while the frame is on the call stack.
C22_RootSetInvariant ==
    /\ FrameSlots \subseteq RootSlots
    /\ \A s \in RootSlots : s[1] = "local" => s \in FrameSlots

\* The try blocks of OwnRegions whose registered range holds the frame's
\* position: the handlers findHandler can return for it.
Enclosing(frame) ==
    {h \in OwnRegions(frame) :
        frame.instructionPointer < exceptionHandlers[h].tryEnd}

\* Of the try blocks of Enclosing, the one entered last: the innermost.
Innermost(frame) ==
    CHOOSE h \in Enclosing(frame) :
        \A j \in Enclosing(frame) :
            exceptionHandlers[j].tryStart <= exceptionHandlers[h].tryStart

\* C23: a throw at a position inside two nested try blocks of the top frame
\* (the registered ranges of both holding the position) sets the frame's
\* position to the catch entry of the inner block and pops no frame.
C23_InnermostHandlerWins ==
    [][(At("throw") /\ Cardinality(Enclosing(Top(callStack))) >= 2) =>
          /\ Len(callStack') = Len(callStack)
          /\ Top(callStack').instructionPointer =
                 exceptionHandlers[Innermost(Top(callStack))].catchStart]_vars

\* The top frame has executed no TryBegin.
TopRegisteredNone ==
    \A h \in 1 .. Len(exceptionHandlers) :
        exceptionHandlers[h].owner # Top(callStack).id

\* C24: a throw in a called frame that registered no try block never leaves
\* that frame on the call stack with its position at a catch or finally
\* entry; the frame is popped and the search goes on with its caller.
C24_HandlersBelongToFrames ==
    [][(At("throw") /\ Len(callStack) >= 2 /\ TopRegisteredNone) =>
          \A i \in 1 .. Len(callStack') :
              callStack'[i].id # Top(callStack).id]_vars

\* throwException goes on behind the executeUntilReturn call that ran a
\* finally body.
Resuming ==
    /\ Running
    /\ lastCall \in DoneCalls
    /\ untilReturn > 0
    /\ IF callStack = <<>> THEN TRUE ELSE Top(callStack).returning

\* An uncaught exception has emptied the call stack.
StackPropagated == callStack = <<>> /\ reported # <<>>

\* C25 (unwinding terminates): every step of throwException (the call from a
\* Throw instruction, and its continuation behind a finally body) pops
\* frames from the top only and ends with the machine running and either a
\* frame left to go on in or the call stack empty and the exception in flight
\* reported; once an uncaught exception has emptied the call stack, nothing
\* more happens.
C25_UnwindingTerminates ==
    [][/\ (At("throw") \/ Resuming) =>
             /\ vmStatus' = "running"
             /\ Len(callStack') <= Len(callStack)
             /\ \A i \in 1 .. Len(callStack') :
                  callStack'[i].id = callStack[i].id
             /\ callStack' = <<>> =>
                  reported' = Append(reported, currentException')
       /\ ~StackPropagated]_vars

\* The field names of the class of obj, own and inherited.
DeclaredFieldsOf(obj) ==
    LET names == getAllFieldNames(classObjs, getClass(obj))
    IN  {names[i] : i \in 1 .. Len(names)}

\* C26 (declared-field invariant): every field an object holds a value
\* under is a field name, own or inherited, of the object's class.
C26_FieldsAreDeclared ==
    \A obj \in alive : \A f \in FieldNames :
        fields[obj][f] # Null => f \in DeclaredFieldsOf(obj)

\* The handlers the top frame registered for the try block whose TryEnd
\* instruction is at the frame's position.
ClosingHere ==
    {h \in 1 .. Len(exceptionHandlers) :
        /\ exceptionHandlers[h].owner = Top(callStack).id
        /\ exceptionHandlers[h].textEnd = Top(callStack).instructionPointer}

\* C27: when a TryEnd executes, the handler registered by the TryBegin of the
\* same try block has tryStart at that TryBegin and takes the TryEnd's
\* position as tryEnd, and no other registered handler changes.
C27_HandlerBounds ==
    [][(At("tryEnd") /\ ClosingHere # {}) =>
          \E h \in ClosingHere :
              LET frame == Top(callStack)
                  begin == program[frame.function][
                               exceptionHandlers[h].tryStart + 1]
              IN  /\ begin.op = "tryBegin"
                  /\ begin.tryEnd = frame.instructionPointer
                  /\ Len(exceptionHandlers') = Len(exceptionHandlers)
                  /\ exceptionHandlers'[h].tryStart =
                         exceptionHandlers[h].tryStart
                  /\ exceptionHandlers'[h].tryEnd = frame.instructionPointer
                  /\ \A j \in 1 .. Len(exceptionHandlers) :
                       j # h => exceptionHandlers'[j] = exceptionHandlers[j]]_vars

\* C28 (mark-bit invariant): when a collection has run its unmark loop, which
\* clears the mark bit of every table entry, and starts on the roots, no
\* object reachable from a registered root has its mark bit set: each is an
\* entry of the table or has the bit clear already.
C28_MarksClearedBeforeMarking ==
    [][Collected =>
          \A o \in ReachableFromRoots :
              o \in allocatedObjects \/ ~marked[o]]_vars

\* C29: the table never holds a pointer to a destroyed object, so that the
\* unmark, mark and sweep loops of a collection, which dereference every
\* entry, touch existing objects only.
C29_NoDanglingEntries ==
    Dangling(allocatedObjects, alive) = {}

\* C30: when throwException goes on behind a finally body, the call stack is
\* not empty and the frame it pops is the frame whose finally body it ran:
\* no frame that took over meanwhile (one that caught an exception thrown
\* by the finally body) is popped, and no frame is popped twice.
C30_PopsOwnFrameOnce ==
    [][Resuming =>
          /\ callStack # <<>>
          /\ Top(callStack).id = unwindingFrames[Len(unwindingFrames)]]_vars

====
